---- MODULE Spec2Model ----
(***************************************************************************)
(* Model of polodb_core/page/page_handler.rs: the PageHandler that routes  *)
(* page reads and writes through the cache, the journal and the main file, *)
(* allocates page ids and packs documents into slotted data pages.         *)
(*                                                                         *)
(* Every handler is an operator over a record `s` of the PageHandler's     *)
(* fields and returns a result record [tag, s, val]: tag "Ok" for Ok(val), *)
(* "Err" for Err(_) (the `?` early return; s is the state at that point)   *)
(* and "Panic" for panic!/unimplemented!/unwrap on None.  The actions at   *)
(* the end apply one public handler to the current state.                  *)
(***************************************************************************)
EXTENDS Integers, Sequences, FiniteSets, TLC

\* ---------------------------------------------------------------- bounds
PageSize == 32          \* the page_size argument of PageHandler::new
MaxPid == 17            \* page ids of the model are 0..MaxPid
MaxSteps == 7           \* calls per behaviour
MaxRawVersion == 2      \* distinct payloads the caller writes to its own pages
MaxHeld == 3            \* pages 1..MaxHeld are held by the layer above at open
MaxAllocSteps == 5      \* calls per behaviour of SpecAlloc
MaxCountSteps == 18     \* calls per behaviour of SpecCount

\* ------------------------------------------------------ program constants
DB_INIT_BLOCK_COUNT == 16
PRESERVE_WRAPPER_MIN_REMAIN_SIZE == 16
U16_MAX == 65535
JOURNAL_FULL_LEN == 1000
DATA_PAGE_HEADER_SIZE == 8
HEADER_FREE_LIST_MAX_SIZE == 4

Pids == 0..MaxPid
NoPid == MaxPid + 1
SelfPid == MaxPid + 2

Max(a, b) == IF a >= b THEN a ELSE b

\* page_count is a u32.  TLC's integers are 32-bit signed, so a u32 n is held
\* as the i32 of the same bits (n itself below 2^31, n - 2^32 from there on):
\* + and - on that i32 are the u32's wrapping + and -, and the u32 is 0
\* exactly when the i32 is.
u32_add(a, b) == a + b
u32_sub(a, b) == a - b

\* ------------------------------------------------------------- documents
\* A document is its key and its encoded length; to_bytes writes the BSON
\* framing: the length prefix, the payload, the terminating zero byte.
SmallLen == 4
BigLen == 20
Docs == { [key |-> 1, len |-> SmallLen], [key |-> 2, len |-> BigLen] }

to_bytes(doc) ==
    <<doc.len>> \o [i \in 1..(doc.len - 2) |-> doc.key] \o <<0>>

\* from_bytes checks the framing and reads the payload back
from_bytes_ok(bytes) ==
    /\ Len(bytes) >= 3
    /\ bytes[1] = Len(bytes)
    /\ bytes[Len(bytes)] = 0

from_bytes(bytes) == [key |-> bytes[2], len |-> bytes[1]]

\* ------------------------------------------------------------ raw pages
\* The content of a page: never written ("zero"), the header page, a
\* slotted data page, or a payload of the layer above ("raw").
ZeroData == [kind |-> "zero"]
HeaderData(bar, fl) == [kind |-> "header", null_page_bar |-> bar, free_list |-> fl]
SlotData(slots) == [kind |-> "data", slots |-> slots]
CallerData(v) == [kind |-> "raw", v |-> v]
NoPage == [kind |-> "none"]

RawPage(pid, data) == [page_id |-> pid, data |-> data]

\* ------------------------------------------------------------- results
Ok(s, v) == [tag |-> "Ok", s |-> s, val |-> v]
Err(s) == [tag |-> "Err", s |-> s, val |-> "error"]
Panic(s) == [tag |-> "Panic", s |-> s, val |-> "panic"]
None == [some |-> FALSE]
Some(v) == [some |-> TRUE, v |-> v]

\* ------------------------------------------------- HeaderPageWrapper
get_null_page_bar(w) == IF w.data.kind = "header" THEN w.data.null_page_bar ELSE 0
get_free_list(w) == IF w.data.kind = "header" THEN w.data.free_list ELSE <<>>
get_free_list_size(w) == Len(get_free_list(w))
get_free_list_page_id(w) == 0
get_free_list_content(w, i) == get_free_list(w)[i + 1]
set_null_page_bar(w, bar) ==
    [w EXCEPT !.data = HeaderData(bar, get_free_list(w))]
set_free_list(w, fl) ==
    [w EXCEPT !.data = HeaderData(get_null_page_bar(w), fl)]

\* --------------------------------------------------- DataPageWrapper
RECURSIVE SlotBytes(_)
SlotBytes(slots) ==
    IF slots = <<>> THEN 0
    ELSE Len(Head(slots)) + 2 + SlotBytes(Tail(slots))

DataPageWrapper_init(pid) == RawPage(pid, SlotData(<<>>))
slots_of(w) == IF w.data.kind = "data" THEN w.data.slots ELSE <<>>
DataPageWrapper_from_raw(raw) == RawPage(raw.page_id, SlotData(slots_of(raw)))
remain_size(w) == PageSize - DATA_PAGE_HEADER_SIZE - SlotBytes(slots_of(w))
bar_len(w) == Len(slots_of(w))
wrapper_put(w, bytes) == RawPage(w.page_id, SlotData(Append(slots_of(w), bytes)))
wrapper_get(w, index) ==
    IF index < bar_len(w) /\ slots_of(w)[index + 1] # <<>>
    THEN Some(slots_of(w)[index + 1])
    ELSE None
wrapper_remove(w, index) ==
    IF index < bar_len(w)
    THEN RawPage(w.page_id, SlotData([slots_of(w) EXCEPT ![index + 1] = <<>>]))
    ELSE w
wrapper_is_empty(w) == \A i \in 1..bar_len(w) : slots_of(w)[i] = <<>>


\* ----------------------------------------------------------- PageCache
\* The replacement policy is opaque: an insert may push out one entry
\* (`ev`: another page, or SelfPid for the inserted one); a hit returns the
\* last-inserted copy.
PageCache_new_default == [p \in Pids |-> NoPage]

insert_to_cache(s, page) ==
    LET c1 == [s.page_cache EXCEPT ![page.page_id] = page.data]
        victim == IF s.o.ev = SelfPid THEN page.page_id ELSE s.o.ev
    IN  [s EXCEPT !.page_cache =
            IF victim \in Pids THEN [c1 EXCEPT ![victim] = NoPage] ELSE c1]

get_from_cache(s, pid) ==
    IF s.page_cache[pid] = NoPage THEN None
    ELSE Some(RawPage(pid, s.page_cache[pid]))

\* ------------------------------------------------------ JournalManager
\* tx: the open transaction; pending: the frames of the open transaction;
\* committed: the committed frames not yet checkpointed; len: frames in the
\* journal file; commit_len: frames up to the last commit.
JournalManager_open ==
    [tx |-> "None",
     pending |-> [p \in Pids |-> NoPage],
     committed |-> [p \in Pids |-> NoPage],
     len |-> 0,
     commit_len |-> 0]

journal_append_raw_page(s, page) ==
    LET s1 == [s EXCEPT !.nw = @ + 1]
    IN  IF s.journal_manager.tx # "Write" THEN Err(s1)
        ELSE IF s.o.wfail = s1.nw THEN Err(s1)
        ELSE Ok([s1 EXCEPT !.journal_manager.pending[page.page_id] = page.data,
                           !.journal_manager.len = @ + 1], "unit")

journal_read_page(s, pid) ==
    IF s.journal_manager.pending[pid] # NoPage
    THEN Some(RawPage(pid, s.journal_manager.pending[pid]))
    ELSE IF s.journal_manager.committed[pid] # NoPage
    THEN Some(RawPage(pid, s.journal_manager.committed[pid]))
    ELSE None

journal_start_transaction(s, ty) ==
    IF s.journal_manager.tx # "None" THEN Err(s)
    ELSE Ok([s EXCEPT !.journal_manager.tx = ty], "unit")

journal_transaction_type(s) ==
    IF s.journal_manager.tx = "None" THEN None ELSE Some(s.journal_manager.tx)

journal_upgrade_read_transaction_to_write(s) ==
    IF s.journal_manager.tx # "Read" \/ s.o.cfail THEN Err(s)
    ELSE Ok([s EXCEPT !.journal_manager.tx = "Write"], "unit")

journal_commit(s) ==
    LET j == s.journal_manager
    IN  IF j.tx = "None" \/ s.o.cfail THEN Err(s)
        ELSE Ok([s EXCEPT !.journal_manager =
                    [tx |-> "None",
                     pending |-> [p \in Pids |-> NoPage],
                     committed |-> [p \in Pids |->
                         IF j.pending[p] # NoPage THEN j.pending[p] ELSE j.committed[p]],
                     len |-> j.len,
                     commit_len |-> j.len]], "unit")

journal_rollback(s) ==
    LET j == s.journal_manager
    IN  IF j.tx = "None" \/ s.o.cfail THEN Err(s)
        ELSE Ok([s EXCEPT !.journal_manager =
                    [tx |-> "None",
                     pending |-> [p \in Pids |-> NoPage],
                     committed |-> j.committed,
                     len |-> j.commit_len,
                     commit_len |-> j.commit_len]], "unit")

journal_checkpoint_journal(s) ==
    LET j == s.journal_manager
        top == {p \in Pids : j.committed[p] # NoPage}
        need == IF top = {} THEN 0
                ELSE (CHOOSE p \in top : \A q \in top : q <= p) + 1
    IN  IF j.tx # "None" \/ s.o.kfail THEN Err(s)
        ELSE Ok([s EXCEPT
                    !.file = [len |-> Max(s.file.len, need * PageSize),
                              pages |-> [p \in Pids |->
                                  IF j.committed[p] # NoPage THEN j.committed[p]
                                  ELSE s.file.pages[p]]],
                    !.journal_manager = JournalManager_open], "unit")

\* JournalManager::open on the journal a closed handler left behind: the
\* committed frames are recovered, those of an open transaction are not
JournalManager_recover(j) ==
    [tx |-> "None",
     pending |-> [p \in Pids |-> NoPage],
     committed |-> j.committed,
     len |-> j.commit_len,
     commit_len |-> j.commit_len]

\* RawPage::read_from_file at offset page_id * page_size
read_from_file(s, page_id) ==
    IF (page_id + 1) * PageSize > s.file.len THEN None
    ELSE Some(RawPage(page_id, s.file.pages[page_id]))

\* ------------------------------------------------------------ pipeline
\* `r?`: on Ok go on with the state and the value, otherwise return r
Try(r, K(_, _)) == IF r.tag = "Ok" THEN K(r.s, r.val) ELSE r

\* (mutant) the cache is written before the journal
pipeline_write_page_cache_first(s, page) ==
    Try(journal_append_raw_page(insert_to_cache(s, page), page),
        LAMBDA s1, u : Ok(s1, "unit"))

pipeline_write_page(s, page) ==
    Try(journal_append_raw_page(s, page),
        LAMBDA s1, u : Ok(insert_to_cache(s1, page), "unit"))

\* (mutant) a cache miss goes straight to the main file
pipeline_read_page_skip_journal(s, page_id) ==
    LET hit == get_from_cache(s, page_id)
        s1 == [s EXCEPT !.nr = @ + 1]
        inf == read_from_file(s1, page_id)
    IN  IF hit.some THEN Ok(s, hit.v)
        ELSE IF s.o.rfail = s1.nr THEN Err(s1)
        ELSE IF ~inf.some THEN Err(s1)
        ELSE Ok(insert_to_cache(s1, inf.v), inf.v)

pipeline_read_page(s, page_id) ==
    LET hit == get_from_cache(s, page_id)
        s1 == [s EXCEPT !.nr = @ + 1]
        inj == journal_read_page(s1, page_id)
        inf == read_from_file(s1, page_id)
    IN  IF hit.some THEN Ok(s, hit.v)
        ELSE IF s.o.rfail = s1.nr THEN Err(s1)
        ELSE IF inj.some THEN Ok(insert_to_cache(s1, inj.v), inj.v)
        ELSE IF ~inf.some THEN Err(s1)
        ELSE Ok(insert_to_cache(s1, inf.v), inf.v)

get_first_page(s) == pipeline_read_page(s, 0)

\* ---------------------------------------------------------- allocation
actual_alloc_page_id(s) ==
    Try(get_first_page(s), LAMBDA s1, first_page :
        Try(pipeline_write_page(
                IF get_null_page_bar(first_page) >= s1.last_commit_db_size
                THEN [s1 EXCEPT !.last_commit_db_size =
                          @ + DB_INIT_BLOCK_COUNT * PageSize]
                ELSE s1,
                set_null_page_bar(first_page, get_null_page_bar(first_page) + 1)),
            LAMBDA s2, u : Ok(s2, get_null_page_bar(first_page))))

\* (mutant) the oldest entry of the free list is taken
try_get_free_page_id_fifo(s) ==
    Try(get_first_page(s), LAMBDA s1, first_page :
        IF get_free_list_size(first_page) = 0 THEN Ok(s1, None)
        ELSE Try(pipeline_write_page(s1,
                     set_free_list(first_page, Tail(get_free_list(first_page)))),
                 LAMBDA s2, u : Ok(s2, Some(get_free_list_content(first_page, 0)))))

try_get_free_page_id(s) ==
    Try(get_first_page(s), LAMBDA s1, first_page :
        IF get_free_list_size(first_page) = 0 THEN Ok(s1, None)
        ELSE Try(pipeline_write_page(s1,
                     set_free_list(first_page,
                         SubSeq(get_free_list(first_page), 1,
                                get_free_list_size(first_page) - 1))),
                 LAMBDA s2, u :
                     Ok(s2, Some(get_free_list_content(first_page,
                                     get_free_list_size(first_page) - 1)))))

\* s.ga collects the ids this call returns (history, not handler state)
alloc_page_id(s) ==
    Try(Try(try_get_free_page_id(s), LAMBDA s1, free :
            IF free.some THEN Ok(s1, free.v) ELSE actual_alloc_page_id(s1)),
        LAMBDA s2, page_id :
            Ok([s2 EXCEPT !.page_count = u32_add(@, 1),
                          !.ga = @ \cup {page_id}], page_id))

free_pages(s, pages) ==
    Try(pipeline_read_page(s, 0), LAMBDA s1, first_page :
        IF get_free_list_page_id(first_page) # 0 THEN Panic(s1)
        ELSE IF get_free_list_size(first_page) + Len(pages)
                    >= HEADER_FREE_LIST_MAX_SIZE THEN Panic(s1)
        ELSE Try(pipeline_write_page(s1,
                     set_free_list(first_page, get_free_list(first_page) \o pages)),
                 LAMBDA s2, u :
                     \* `-=` below zero: a panic with overflow checks, a wrap without
                     IF s2.o.checks /\ s2.page_count < Len(pages) THEN Panic(s2)
                     ELSE Ok([s2 EXCEPT !.page_count = u32_sub(@, Len(pages))], "unit")))

free_page(s, pid) == free_pages(s, <<pid>>)


\* -------------------------------------------------------- slot packing
MapRemove(m, key) == [k \in DOMAIN m \ {key} |-> m[k]]
MapInsert(m, key, v) == [k \in DOMAIN m \cup {key} |-> IF k = key THEN v ELSE m[k]]

force_distribute_new_data_page_wrapper(s) ==
    Try(alloc_page_id(s), LAMBDA s1, page_id : Ok(s1, DataPageWrapper_init(page_id)))

distribute_data_page_wrapper(s, size) ==
    LET data_size == size + 2
        keys == {k \in DOMAIN s.data_page_map : k >= data_size}
        key == CHOOSE k \in keys : \A q \in keys : k <= q
        value == s.data_page_map[key]
        rest == SubSeq(value, 1, Len(value) - 1)
    IN  IF keys = {} THEN force_distribute_new_data_page_wrapper(s)
        ELSE IF value = <<>> THEN Panic(s)
        ELSE Try(pipeline_read_page([s EXCEPT !.data_page_map[key] = rest],
                                    value[Len(value)]),
                 LAMBDA s1, raw_page :
                     Ok(IF rest = <<>>
                        THEN [s1 EXCEPT !.data_page_map = MapRemove(@, key)]
                        ELSE s1,
                        DataPageWrapper_from_raw(raw_page)))

return_data_page_wrapper(s, wrapper) ==
    LET remain == remain_size(wrapper)
    IN  IF remain < PRESERVE_WRAPPER_MIN_REMAIN_SIZE THEN s
        ELSE IF bar_len(wrapper) >= U16_MAX \div 2 THEN s
        ELSE IF remain \in DOMAIN s.data_page_map
        THEN [s EXCEPT !.data_page_map[remain] = Append(@, wrapper.page_id)]
        ELSE [s EXCEPT !.data_page_map = MapInsert(@, remain, <<wrapper.page_id>>)]

DataTicket(pid, index) == [pid |-> pid, index |-> index]

\* wrapper.put on a page without room for the record leaves the page
\* buffer: the slice index is out of range and the handler panics.
store_doc(s, doc) ==
    Try(distribute_data_page_wrapper(s, Len(to_bytes(doc))), LAMBDA s1, wrapper :
        IF remain_size(wrapper) < Len(to_bytes(doc)) + 2 THEN Panic(s1)
        ELSE Try(pipeline_write_page(s1, wrapper_put(wrapper, to_bytes(doc))),
                 LAMBDA s2, u :
                     Ok(return_data_page_wrapper(s2, wrapper_put(wrapper, to_bytes(doc))),
                        DataTicket(wrapper.page_id,
                                   bar_len(wrapper) % (U16_MAX + 1)))))

get_doc_from_ticket(s, data_ticket) ==
    Try(pipeline_read_page(s, data_ticket.pid), LAMBDA s1, page :
        LET bytes == wrapper_get(DataPageWrapper_from_raw(page), data_ticket.index)
        IN  IF ~bytes.some THEN Ok(s1, None)
            ELSE IF ~from_bytes_ok(bytes.v) THEN Err(s1)
            ELSE Ok(s1, Some(from_bytes(bytes.v))))

\* (mutant) the page is written back only when it became empty
free_data_ticket_write_if_empty(s, data_ticket) ==
    Try(pipeline_read_page(s, data_ticket.pid), LAMBDA s1, page :
        LET bytes == wrapper_get(DataPageWrapper_from_raw(page), data_ticket.index)
            wrapper == wrapper_remove(DataPageWrapper_from_raw(page), data_ticket.index)
        IN  IF ~bytes.some THEN Panic(s1)
            ELSE IF wrapper_is_empty(wrapper)
            THEN Try(free_page(s1, data_ticket.pid), LAMBDA s2, u :
                     Try(pipeline_write_page(s2, wrapper),
                         LAMBDA s3, v : Ok(s3, bytes.v)))
            ELSE Ok(s1, bytes.v))

free_data_ticket(s, data_ticket) ==
    Try(pipeline_read_page(s, data_ticket.pid), LAMBDA s1, page :
        LET bytes == wrapper_get(DataPageWrapper_from_raw(page), data_ticket.index)
            wrapper == wrapper_remove(DataPageWrapper_from_raw(page), data_ticket.index)
        IN  IF ~bytes.some THEN Panic(s1)
            ELSE Try(IF wrapper_is_empty(wrapper)
                     THEN free_page(s1, data_ticket.pid)
                     ELSE Ok(s1, "unit"),
                     LAMBDA s2, u :
                         Try(pipeline_write_page(s2, wrapper),
                             LAMBDA s3, v : Ok(s3, bytes.v))))

\* ----------------------------------------------------------------- open
\* a journal of n committed frames, each a write of page 1 by the layer above
JournalOf(n) ==
    [JournalManager_open EXCEPT
        !.len = n, !.commit_len = n,
        !.committed[1] = IF n > 0 THEN CallerData(1) ELSE NoPage]

\* init_db on the main file the handler s leaves behind (never shorter than
\* a page): its block count and its length
init_db(s) == [page_count |-> s.file.len \div PageSize, db_file_size |-> s.file.len]

\* PageHandler::new on the path of the handler s, after s is dropped
PageHandler_new(s) ==
    Ok([s EXCEPT !.last_commit_db_size = s.file.len,
                 !.page_count = init_db(s).page_count,
                 !.page_cache = PageCache_new_default,
                 !.journal_manager = JournalManager_recover(s.journal_manager),
                 !.data_page_map = << >>,
                 !.transaction_state = "NoTrans"], "unit")

\* --------------------------------------------------------- transactions
\* (mutant) more than 1000 entries make a full journal
is_journal_full_above(s) == s.journal_manager.len > JOURNAL_FULL_LEN

is_journal_full(s) == s.journal_manager.len >= JOURNAL_FULL_LEN

checkpoint_journal(s) == journal_checkpoint_journal(s)

start_transaction(s, ty) == journal_start_transaction(s, ty)

commit(s) ==
    Try(journal_commit(s), LAMBDA s1, u :
        IF is_journal_full(s1) THEN checkpoint_journal(s1) ELSE Ok(s1, "unit"))

transaction_type(s) == journal_transaction_type(s)

upgrade_read_transaction_to_write(s) == journal_upgrade_read_transaction_to_write(s)

TransactionState == {"NoTrans", "User", "UserAuto", "DbAuto"}

set_transaction_state(s, state) == Ok([s EXCEPT !.transaction_state = state], "unit")

AutoStartResult(auto_start) == [auto_start |-> auto_start]

\* (mutant) DbAuto is entered before the journal is asked
auto_start_transaction_eager(s, ty) ==
    IF s.transaction_state = "NoTrans"
    THEN Try(start_transaction([s EXCEPT !.transaction_state = "DbAuto"], ty),
             LAMBDA s1, u : Ok(s1, AutoStartResult(TRUE)))
    ELSE IF s.transaction_state = "UserAuto" /\ ty = "Write"
                /\ transaction_type(s) = Some("Read")
    THEN Try(upgrade_read_transaction_to_write(s),
             LAMBDA s1, u : Ok(s1, AutoStartResult(FALSE)))
    ELSE Ok(s, AutoStartResult(FALSE))

auto_start_transaction(s, ty) ==
    IF s.transaction_state = "NoTrans"
    THEN Try(start_transaction(s, ty), LAMBDA s1, u :
             Ok([s1 EXCEPT !.transaction_state = "DbAuto"], AutoStartResult(TRUE)))
    ELSE IF s.transaction_state = "UserAuto" /\ ty = "Write"
                /\ transaction_type(s) = Some("Read")
    THEN Try(upgrade_read_transaction_to_write(s),
             LAMBDA s1, u : Ok(s1, AutoStartResult(FALSE)))
    ELSE Ok(s, AutoStartResult(FALSE))

\* (mutant) the cache survives the rollback
rollback_keeps_cache(s) == journal_rollback(s)

rollback(s) ==
    Try(journal_rollback(s), LAMBDA s1, u :
        Ok([s1 EXCEPT !.page_cache = PageCache_new_default], "unit"))


\* ================================================================ state
VARIABLES
    file,                 \* the main file: [len (bytes), pages]
    last_commit_db_size,
    page_count,
    page_cache,
    journal_manager,
    data_page_map,
    transaction_state,
    panicked,             \* a handler panicked: the process is gone
    ret,                  \* the last call: [op, arg, tag, val]
    tickets,              \* the caller's tickets: [t, doc], stored and not freed
    stable,               \* the tickets among them stored since the last rollback
    owned,                \* page ids the caller got from alloc_page_id and holds
    begin,                \* at start_transaction: the caller's tickets and pages,
                          \* and the page versions then visible
    ever_alloc,           \* every id alloc_page_id has returned
    steps,                \* calls so far
    budget                \* calls this behaviour may make

vars == <<file, last_commit_db_size, page_count, page_cache, journal_manager,
          data_page_map, transaction_state, panicked, ret, tickets, stable,
          owned, begin, ever_alloc, steps, budget>>

\* what one call meets: the wfail-th journal append and the rfail-th read
\* behind the cache fail (0: none), commit/rollback or the checkpoint
\* fails, and what the cache evicts on insert
NoFault == [wfail |-> 0, rfail |-> 0, cfail |-> FALSE, kfail |-> FALSE, ev |-> NoPid,
            checks |-> FALSE]
Cached == {p \in Pids : page_cache[p] # NoPage}
Evictions == {[NoFault EXCEPT !.ev = v] : v \in {SelfPid} \cup Cached}
IoFaults == {NoFault} \cup {[NoFault EXCEPT !.wfail = n] : n \in 1..2}
                      \cup {[NoFault EXCEPT !.rfail = n] : n \in 1..2}
TxFaults == {NoFault, [NoFault EXCEPT !.cfail = TRUE], [NoFault EXCEPT !.kfail = TRUE]}

Self(o) ==
    [file |-> file,
     last_commit_db_size |-> last_commit_db_size,
     page_count |-> page_count,
     page_cache |-> page_cache,
     journal_manager |-> journal_manager,
     data_page_map |-> data_page_map,
     transaction_state |-> transaction_state,
     o |-> o, nw |-> 0, nr |-> 0, ga |-> {}]

\* the page a fault-free pipeline_read_page(pid) returns now (NoPage: Err)
Visible(pid) ==
    LET r == pipeline_read_page(Self(NoFault), pid)
    IN  IF r.tag = "Ok" THEN r.val.data ELSE NoPage

Header == RawPage(0, Visible(0))

\* what a fault-free get_doc_from_ticket(t) returns now
Resolve(t) ==
    LET r == get_doc_from_ticket(Self(NoFault), t)
    IN  [tag |-> r.tag, val |-> r.val]

InitBars == {1, DB_INIT_BLOCK_COUNT}

\* PageHandler::new on a 16-page main file whose header has null_page_bar =
\* bar, with the journal the journal manager recovers; the layer above holds
\* the pages `held` and will make `calls` calls
Opened(bar, held, journal, calls) ==
    /\ file = [len |-> DB_INIT_BLOCK_COUNT * PageSize,
               pages |-> [p \in Pids |->
                   IF p = 0 THEN HeaderData(bar, <<>>) ELSE ZeroData]]
    /\ last_commit_db_size = DB_INIT_BLOCK_COUNT * PageSize
    /\ page_count = DB_INIT_BLOCK_COUNT
    /\ page_cache = PageCache_new_default
    /\ journal_manager = journal
    /\ data_page_map = << >>
    /\ transaction_state = "NoTrans"
    /\ panicked = FALSE
    /\ ret = [op |-> "new", arg |-> "none", tag |-> "Ok", val |-> "unit"]
    /\ tickets = {}
    /\ stable = {}
    /\ owned = held
    /\ begin = [tickets |-> {}, owned |-> held, visible |-> << >>]
    /\ ever_alloc = {}
    /\ steps = 0
    /\ budget = calls

\* PageHandler::new on a path without a file, or on the 16-page file of a
\* store whose upper layer holds pages 1..15 (checkpointed, then closed)
Init == \E bar \in InitBars : Opened(bar, {}, JournalManager_open, MaxSteps)

\* the handler's fields after the call, or the wreck of a panic
Apply(r, op, arg) ==
    /\ ret' = [op |-> op, arg |-> arg, tag |-> r.tag, val |-> r.val]
    /\ panicked' = (r.tag = "Panic")
    /\ file' = r.s.file
    /\ last_commit_db_size' = r.s.last_commit_db_size
    /\ page_count' = r.s.page_count
    /\ page_cache' = r.s.page_cache
    /\ journal_manager' = r.s.journal_manager
    /\ data_page_map' = r.s.data_page_map
    /\ transaction_state' = r.s.transaction_state
    /\ ever_alloc' = ever_alloc \cup r.s.ga
    /\ steps' = steps + 1
    /\ budget' = budget

\* The caller is the layer above: one call at a time, none after a panic,
\* and after an Err inside a transaction it rolls back before anything else.
MustRollback == ret.tag = "Err" /\ journal_manager.tx # "None"
CanCall == ~panicked /\ ~MustRollback /\ steps < budget
CanAlloc == CanCall /\ get_null_page_bar(Header) < MaxPid


\* ============================================================== actions
\* Each action is one public call; `o` is what the call meets (see NoFault).
StartTransaction(ty) ==
    /\ CanCall
    /\ \E r \in {start_transaction(Self(NoFault), ty)} :
           /\ Apply(r, "start_transaction", ty)
           /\ begin' = IF r.tag = "Ok"
                       THEN [tickets |-> tickets, owned |-> owned,
                             visible |-> [p \in Pids |-> Visible(p)]]
                       ELSE begin
    /\ UNCHANGED <<tickets, stable, owned>>

Commit(o) ==
    /\ CanCall
    /\ Apply(commit(Self(o)), "commit", "none")
    /\ UNCHANGED <<tickets, stable, owned, begin>>

Rollback(o) ==
    /\ ~panicked
    /\ steps < budget
    /\ \E r \in {rollback(Self(o))} :
           \* with what the transaction wrote and issued, for the record
           /\ Apply(r, "rollback",
                    [pages |-> {p \in Pids : journal_manager.pending[p] # NoPage},
                     tickets |-> tickets \ begin.tickets])
           /\ tickets' = IF r.tag = "Ok" THEN begin.tickets ELSE tickets
           /\ owned' = IF r.tag = "Ok" THEN begin.owned ELSE owned
           /\ stable' = IF r.tag = "Ok" THEN {} ELSE stable
    /\ UNCHANGED <<begin>>

CheckpointJournal(o) ==
    /\ CanCall
    /\ Apply(checkpoint_journal(Self(o)), "checkpoint_journal", "none")
    /\ UNCHANGED <<tickets, stable, owned, begin>>

StoreDoc(doc, o) ==
    /\ CanAlloc
    /\ \E r \in {store_doc(Self(o), doc)} :
         \E new \in {IF r.tag = "Ok" THEN {[t |-> r.val, doc |-> doc]} ELSE {}} :
           /\ Apply(r, "store_doc", doc)
           /\ tickets' = tickets \cup new
           /\ stable' = stable \cup new
    /\ UNCHANGED <<owned, begin>>

GetDocFromTicket(tk, o) ==
    /\ CanCall
    /\ Apply(get_doc_from_ticket(Self(o), tk.t), "get_doc_from_ticket", tk)
    /\ UNCHANGED <<tickets, stable, owned, begin>>

FreeDataTicket(tk, o) ==
    /\ CanCall
    /\ \E r \in {free_data_ticket(Self(o), tk.t)} :
         \E gone \in {IF r.tag = "Ok" THEN {tk} ELSE {}} :
           \* fresh: tk comes from the store_doc call just before this one
           /\ Apply(r, "free_data_ticket",
                    [tk |-> tk,
                     fresh |-> ret.op = "store_doc" /\ ret.tag = "Ok"
                                   /\ ret.val = tk.t /\ ret.arg = tk.doc])
           /\ tickets' = tickets \ gone
           /\ stable' = stable \ gone
    /\ UNCHANGED <<owned, begin>>

\* what the allocations right after a free_pages(freed) have yet to hand
\* back: `due` is freed less one id per allocation since, the next one last
FreedBefore ==
    IF ret.tag = "Ok" /\ ret.op = "free_pages"
    THEN [freed |-> ret.arg, due |-> ret.arg]
    ELSE IF ret.tag = "Ok" /\ ret.op = "alloc_page_id" /\ Len(ret.arg.due) > 1
    THEN [freed |-> ret.arg.freed,
          due |-> SubSeq(ret.arg.due, 1, Len(ret.arg.due) - 1)]
    ELSE [freed |-> <<>>, due |-> <<>>]

AllocPageId(o) ==
    /\ CanAlloc
    /\ \E r \in {alloc_page_id(Self(o))} :
           /\ Apply(r, "alloc_page_id", FreedBefore)
           /\ owned' = IF r.tag = "Ok" THEN owned \cup {r.val} ELSE owned
    /\ UNCHANGED <<tickets, stable, begin>>

\* the argument lists of free_pages: pages the caller holds, each once
FreeLists == {<<a>> : a \in owned}
               \cup {<<c[1], c[2]>> : c \in {d \in owned \X owned : d[1] # d[2]}}

FreePages(pages, o) ==
    /\ CanCall
    /\ \E r \in {free_pages(Self(o), pages)} :
           /\ Apply(r, "free_pages", pages)
           /\ owned' = IF r.tag = "Ok"
                       THEN owned \ {pages[i] : i \in 1..Len(pages)}
                       ELSE owned
    /\ UNCHANGED <<tickets, stable, begin>>

PipelineWritePage(pid, v, o) ==
    /\ CanCall
    /\ Apply(pipeline_write_page(Self(o), RawPage(pid, CallerData(v))),
             "pipeline_write_page", RawPage(pid, CallerData(v)))
    /\ UNCHANGED <<tickets, stable, owned, begin>>

PipelineReadPage(pid, o) ==
    /\ CanCall
    /\ Apply(pipeline_read_page(Self(o), pid), "pipeline_read_page", pid)
    /\ UNCHANGED <<tickets, stable, owned, begin>>

\* (mutant) auto_commit also ends the transaction of a UserAuto session
auto_commit_in_user_auto(s) ==
    IF s.transaction_state \in {"DbAuto", "UserAuto"}
    THEN Try(commit(s), LAMBDA s1, u :
             Ok([s1 EXCEPT !.transaction_state = "NoTrans"], "unit"))
    ELSE Ok(s, "unit")

auto_rollback(s) ==
    IF s.transaction_state = "DbAuto"
    THEN Try(rollback(s), LAMBDA s1, u :
             Ok([s1 EXCEPT !.transaction_state = "NoTrans"], "unit"))
    ELSE Ok(s, "unit")

auto_commit(s) ==
    IF s.transaction_state = "DbAuto"
    THEN Try(commit(s), LAMBDA s1, u :
             Ok([s1 EXCEPT !.transaction_state = "NoTrans"], "unit"))
    ELSE Ok(s, "unit")

\* arg: the type asked for and the journal transaction open at the call
AutoStartTransaction(ty) ==
    /\ CanCall
    /\ \E r \in {auto_start_transaction(Self(NoFault), ty)} :
           /\ Apply(r, "auto_start_transaction",
                    [ty |-> ty, tx |-> journal_manager.tx])
           /\ begin' = IF r.tag = "Ok" /\ r.val.auto_start
                       THEN [tickets |-> tickets, owned |-> owned,
                             visible |-> [p \in Pids |-> Visible(p)]]
                       ELSE begin
    /\ UNCHANGED <<tickets, stable, owned>>

AutoCommit(o) ==
    /\ CanCall
    /\ Apply(auto_commit(Self(o)), "auto_commit", "none")
    /\ UNCHANGED <<tickets, stable, owned, begin>>

AutoRollback(o) ==
    /\ ~panicked
    /\ steps < budget
    /\ \E r \in {auto_rollback(Self(o))} :
         \E undone \in {r.tag = "Ok" /\ transaction_state = "DbAuto"} :
           /\ Apply(r, "auto_rollback",
                    [pages |-> {p \in Pids : journal_manager.pending[p] # NoPage},
                     tickets |-> tickets \ begin.tickets])
           /\ tickets' = IF undone THEN begin.tickets ELSE tickets
           /\ owned' = IF undone THEN begin.owned ELSE owned
           /\ stable' = IF undone THEN {} ELSE stable
    /\ UNCHANGED <<begin>>

SetTransactionState(state) ==
    /\ CanCall
    /\ Apply(set_transaction_state(Self(NoFault), state),
             "set_transaction_state", state)
    /\ UNCHANGED <<tickets, stable, owned, begin>>

\* the handler is dropped and the store opened again; what an open
\* transaction wrote is lost with it, as in a rollback
Reopen ==
    /\ ~panicked
    /\ steps < budget
    /\ Apply(PageHandler_new(Self(NoFault)), "new",
             [tickets |-> IF journal_manager.tx = "None" THEN tickets
                          ELSE begin.tickets])
    /\ tickets' = IF journal_manager.tx = "None" THEN tickets ELSE begin.tickets
    /\ owned' = IF journal_manager.tx = "None" THEN owned ELSE begin.owned
    /\ stable' = IF journal_manager.tx = "None" THEN stable ELSE {}
    /\ UNCHANGED <<begin>>

\* ------------------------------------------------------- specifications
\* Spec: the document layer and the allocator; any journal append or read
\* behind the cache may fail, and so may commit and rollback.
Next ==
    \/ StartTransaction("Write")
    \/ \E o \in TxFaults : Commit(o)
    \/ \E o \in TxFaults : Rollback(o)
    \/ \E doc \in Docs, o \in IoFaults : StoreDoc(doc, o)
    \/ \E tk \in tickets, o \in IoFaults : GetDocFromTicket(tk, o)
    \/ \E tk \in tickets, o \in IoFaults : FreeDataTicket(tk, o)
    \/ \E o \in IoFaults : AllocPageId(o)
    \/ \E pages \in FreeLists, o \in IoFaults : FreePages(pages, o)

Spec == Init /\ [][Next]_vars

\* SpecPipe: the page pipeline under the layer above, which writes its own
\* payloads to a page inside the main file and to one past its end; the
\* cache evicts as it likes and any journal or file access may fail.
PipePids == {1, DB_INIT_BLOCK_COUNT}
PipeOracles == IoFaults \cup Evictions

NextPipe ==
    \/ \E ty \in {"Read", "Write"} : StartTransaction(ty)
    \/ \E o \in TxFaults : Commit(o)
    \/ \E o \in TxFaults : Rollback(o)
    \/ \E o \in TxFaults : CheckpointJournal(o)
    \/ \E pid \in PipePids, v \in 1..MaxRawVersion, o \in PipeOracles :
           PipelineWritePage(pid, v, o)
    \/ \E pid \in PipePids, o \in PipeOracles : PipelineReadPage(pid, o)

SpecPipe == Init /\ [][NextPipe]_vars

\* SpecAlloc: the allocator of a store whose layer above holds pages
\* 1..MaxHeld and frees them one, two or three at a time.
InitHeld ==
    Opened(DB_INIT_BLOCK_COUNT, 1..MaxHeld, JournalManager_open, MaxAllocSteps)

FreeTriples ==
    {<<c[1], c[2], c[3]>> : c \in {d \in owned \X owned \X owned :
                                      Cardinality({d[1], d[2], d[3]}) = 3}}

\* free_pages reads the header and appends it to the journal, once each
FreeFaults == {NoFault, [NoFault EXCEPT !.wfail = 1], [NoFault EXCEPT !.rfail = 1]}

NextAlloc ==
    \/ StartTransaction("Write")
    \/ \E o \in TxFaults : Commit(o)
    \/ \E o \in TxFaults : Rollback(o)
    \/ \E o \in IoFaults : AllocPageId(o)
    \/ \E pages \in FreeLists \cup FreeTriples, o \in FreeFaults : FreePages(pages, o)

SpecAlloc == InitHeld /\ [][NextAlloc]_vars

\* SpecCount: page_count over long runs of the allocator, built with or
\* without overflow checks (`page_count -= n` below zero panics or wraps).
InitCount ==
    Opened(DB_INIT_BLOCK_COUNT, 1..MaxHeld, JournalManager_open, MaxCountSteps)

Builds == {NoFault, [NoFault EXCEPT !.checks = TRUE]}

\* the caller frees one held page, or as many as an empty free list takes
LongestFree == [i \in 1..(HEADER_FREE_LIST_MAX_SIZE - 1) |-> i]
HeldLists ==
    {<<a>> : a \in owned}
        \cup {l \in {LongestFree} : \A i \in 1..Len(l) : l[i] \in owned}

NextCount ==
    \/ StartTransaction("Write")
    \/ Commit(NoFault)
    \/ Rollback(NoFault)
    \/ \E pages \in HeldLists, o \in Builds : FreePages(pages, o)

SpecCount == InitCount /\ [][NextCount]_vars

\* SpecReopen: documents stored, freed and committed, then the store is
\* closed and opened again.
NextReopen ==
    \/ StartTransaction("Write")
    \/ \E o \in TxFaults : Commit(o)
    \/ Rollback(NoFault)
    \/ CheckpointJournal(NoFault)
    \/ \E doc \in Docs : StoreDoc(doc, NoFault)
    \/ \E tk \in tickets : FreeDataTicket(tk, NoFault)
    \/ Reopen

SpecReopen == Init /\ [][NextReopen]_vars

\* SpecAuto: the transaction state machine under a layer above that mixes
\* the auto_* calls with the explicit ones and writes its own pages, on a
\* fresh store or on one whose journal is one entry short of full.
JournalLens == {0, JOURNAL_FULL_LEN - 1}

InitAuto == \E n \in JournalLens : Opened(1, {}, JournalOf(n), MaxSteps)

NextAuto ==
    \/ \E ty \in {"Read", "Write"} : AutoStartTransaction(ty)
    \/ \E o \in TxFaults : AutoCommit(o)
    \/ \E o \in TxFaults : AutoRollback(o)
    \/ \E ty \in {"Read", "Write"} : StartTransaction(ty)
    \/ \E o \in TxFaults : Commit(o)
    \/ \E o \in TxFaults : Rollback(o)
    \/ \E state \in TransactionState : SetTransactionState(state)
    \/ \E pid \in PipePids, v \in 1..MaxRawVersion : PipelineWritePage(pid, v, NoFault)

SpecAuto == InitAuto /\ [][NextAuto]_vars

\* SpecAutoOnly: as SpecAuto, for a layer above that leaves the transaction
\* to the auto_* calls.
NextAutoOnly ==
    \/ \E ty \in {"Read", "Write"} : AutoStartTransaction(ty)
    \/ \E o \in TxFaults : AutoCommit(o)
    \/ \E o \in TxFaults : AutoRollback(o)
    \/ \E pid \in PipePids, v \in 1..MaxRawVersion, o \in IoFaults :
           PipelineWritePage(pid, v, o)
    \/ \E pid \in PipePids, o \in IoFaults : PipelineReadPage(pid, o)

SpecAutoOnly == InitAuto /\ [][NextAutoOnly]_vars

\* =============================================================== claims
NotFound == [tag |-> "Ok", val |-> None]
FreeList == get_free_list(Header)
NullPageBar == get_null_page_bar(Header)
InFreeList(pid) == \E i \in 1..Len(FreeList) : FreeList[i] = pid

\* C1: a ticket stored since the last rollback and not freed resolves to
\* its document, byte for byte, after every call that returned Ok.
C1_TicketStableUntilFreed ==
    (~panicked /\ ret.tag = "Ok") =>
        \A tk \in stable :
            /\ Resolve(tk.t).tag = "Ok"
            /\ Resolve(tk.t).val.some
            /\ to_bytes(Resolve(tk.t).val.v) = to_bytes(tk.doc)

\* C2: a stale free-bucket entry only makes an allocation miss: store_doc
\* never returns a ticket for a page at or above null_page_bar.
C2_StoreBelowBar ==
    (ret.op = "store_doc" /\ ret.tag = "Ok") => ret.val.pid < NullPageBar

\* C4: right after a rollback, every ticket the rolled-back transaction
\* issued resolves to not-found (Ok(None)), never to Err or a document.
C4_RolledBackTicketNotFound ==
    (ret.op = "rollback" /\ ret.tag = "Ok") =>
        \A tk \in ret.arg.tickets : Resolve(tk.t) = NotFound

\* C5: free_data_ticket(t) right after the store_doc(d) that returned t
\* returns d.to_bytes(), and get_doc_from_ticket(t) then finds nothing.
C5_FreeReturnsBytesThenNotFound ==
    (ret.op = "free_data_ticket" /\ ret.tag = "Ok" /\ ret.arg.fresh) =>
        /\ ret.val = to_bytes(ret.arg.tk.doc)
        /\ Resolve(ret.arg.tk.t) = NotFound

C5_Witness ==
    /\ ret.op = "free_data_ticket" /\ ret.tag = "Ok" /\ ret.arg.fresh
    /\ InFreeList(ret.arg.tk.t.pid)

\* C8: after every call that returned Ok, null_page_bar is above every id
\* alloc_page_id has ever returned.
C8_BarAboveAllocated ==
    (~panicked /\ ret.tag = "Ok") => \A id \in ever_alloc : id < NullPageBar

\* C9: after every call that returned Ok, every id in the header free list
\* is below null_page_bar and is not page 0.
C9_FreeListBelowBar ==
    (~panicked /\ ret.tag = "Ok") =>
        \A i \in 1..Len(FreeList) : FreeList[i] < NullPageBar /\ FreeList[i] # 0

\* C10: after every call that returned Ok, every page indexed in the
\* free-bucket map has the remain_size it is indexed under and fewer than
\* u16::MAX / 2 slots.
C10_BucketMatchesPage ==
    (~panicked /\ ret.tag = "Ok") =>
        \A key \in DOMAIN data_page_map :
            \A i \in 1..Len(data_page_map[key]) :
                LET w == DataPageWrapper_from_raw(
                             RawPage(data_page_map[key][i], Visible(data_page_map[key][i])))
                IN  remain_size(w) = key /\ bar_len(w) < U16_MAX \div 2


\* C3: right after a rollback the cache is empty and every page reads as it
\* did when the transaction began.
C3_RollbackRestoresPages ==
    (ret.op = "rollback" /\ ret.tag = "Ok") =>
        /\ \A pid \in Pids : ~get_from_cache(Self(NoFault), pid).some
        /\ \A pid \in Pids : Visible(pid) = begin.visible[pid]

C3_Witness ==
    /\ ret.op = "rollback" /\ ret.tag = "Ok"
    /\ \E pid \in ret.arg.pages : begin.visible[pid].kind = "raw"

\* C6: a pipeline_write_page that returns Err leaves the cache as it was.
C6_FailedWriteLeavesCache ==
    [][(ret'.op = "pipeline_write_page" /\ ret'.tag = "Err")
          => page_cache' = page_cache]_vars

C6_Witness ==
    /\ ret.op = "pipeline_write_page" /\ ret.tag = "Err"
    /\ journal_manager.tx = "Write"
    /\ page_cache[ret.arg.page_id] \notin {NoPage, ret.arg.data}

\* C7: right after a pipeline_write_page(p) that returned Ok,
\* pipeline_read_page(p.id) returns p, whether or not the cache kept it.
C7_ReadAfterWrite ==
    (ret.op = "pipeline_write_page" /\ ret.tag = "Ok") =>
        \A o \in {NoFault} \cup Evictions :
            LET r == pipeline_read_page(Self(o), ret.arg.page_id)
            IN  r.tag = "Ok" /\ r.val = ret.arg

C7_Witness ==
    /\ ret.op = "pipeline_write_page" /\ ret.tag = "Ok"
    /\ page_cache[ret.arg.page_id] = NoPage
    /\ journal_manager.committed[ret.arg.page_id] \notin {NoPage, ret.arg.data}
    /\ file.pages[ret.arg.page_id] # ret.arg.data

\* C11: the allocations that follow a free_pages, with no other call in
\* between, return the freed ids last-in first-out: each returns the last
\* id not yet handed back, never an id from fresh space.
C11_FreedIdsReusedLifo ==
    (ret.op = "alloc_page_id" /\ ret.tag = "Ok" /\ ret.arg.due # <<>>) =>
        ret.val = ret.arg.due[Len(ret.arg.due)]

\* the third allocation after a free_pages([a, b, c])
C11_Witness ==
    /\ ret.op = "alloc_page_id" /\ ret.tag = "Ok"
    /\ Len(ret.arg.freed) = 3 /\ Len(ret.arg.due) = 1
    /\ ret.val = ret.arg.freed[1]

\* C12: after every call that returned Ok, page_count is at least 1 (a
\* count that wrapped below zero is held as a negative number).
C12_PageCountPositive ==
    (~panicked /\ ret.tag = "Ok") => page_count >= 1

\* C13: right after the store is reopened, every ticket that store_doc
\* issued before the last commit and that was not freed resolves to its
\* document.
C13_CommittedTicketsSurviveReopen ==
    (ret.op = "new" /\ steps > 0) =>
        \A tk \in ret.arg.tickets :
            /\ Resolve(tk.t).tag = "Ok"
            /\ Resolve(tk.t).val.some
            /\ to_bytes(Resolve(tk.t).val.v) = to_bytes(tk.doc)

\* C14: auto_start_transaction in NoTrans starts the journal transaction of
\* the type asked for, enters DbAuto and returns auto_start = true, and
\* stays in NoTrans if the journal refuses; in UserAuto, asked for Write
\* over a Read transaction, it upgrades the transaction, stays in UserAuto
\* and returns false; in every other case it changes neither the journal
\* nor the state and returns false.
C14_AutoStartStateMachine ==
    [][ret'.op = "auto_start_transaction" =>
          IF transaction_state = "NoTrans"
          THEN /\ ret'.tag = "Ok" =>
                    /\ journal_manager'.tx = ret'.arg.ty
                    /\ transaction_state' = "DbAuto"
                    /\ ret'.val.auto_start
               /\ ret'.tag # "Ok" =>
                    /\ transaction_state' = "NoTrans"
                    /\ journal_manager' = journal_manager
          ELSE IF transaction_state = "UserAuto" /\ ret'.arg.ty = "Write"
                      /\ journal_manager.tx = "Read"
          THEN ret'.tag = "Ok" =>
                    /\ journal_manager'.tx = "Write"
                    /\ transaction_state' = "UserAuto"
                    /\ ~ret'.val.auto_start
          ELSE /\ ret'.tag = "Ok"
               /\ ~ret'.val.auto_start
               /\ journal_manager' = journal_manager
               /\ transaction_state' = transaction_state]_vars

\* the upgrade of scenario 6
C14_Witness ==
    /\ ret.op = "auto_start_transaction" /\ ret.tag = "Ok"
    /\ ret.arg = [ty |-> "Write", tx |-> "Read"]
    /\ transaction_state = "UserAuto"
    /\ journal_manager.tx = "Write"

\* C15: auto_commit and auto_rollback outside DbAuto return Ok and change
\* neither the state, the cache nor the journal; in DbAuto, when they
\* return Ok, the journal transaction is over and the state is NoTrans.
\* start_transaction, commit and rollback leave transaction_state alone.
C15_AutoEndOnlyInDbAuto ==
    [][/\ (ret'.op \in {"auto_commit", "auto_rollback"}
             /\ transaction_state # "DbAuto") =>
                /\ ret'.tag = "Ok"
                /\ transaction_state' = transaction_state
                /\ page_cache' = page_cache
                /\ journal_manager' = journal_manager
       /\ (ret'.op \in {"auto_commit", "auto_rollback"}
             /\ transaction_state = "DbAuto" /\ ret'.tag = "Ok") =>
                /\ journal_manager'.tx = "None"
                /\ transaction_state' = "NoTrans"
       /\ ret'.op \in {"start_transaction", "commit", "rollback"} =>
                transaction_state' = transaction_state]_vars

\* auto_commit in a UserAuto session with a transaction open
C15_Witness ==
    /\ ret.op = "auto_commit" /\ ret.tag = "Ok"
    /\ transaction_state = "UserAuto"
    /\ journal_manager.tx # "None"

\* C16: a commit that returns Ok leaves fewer than 1000 entries in the
\* journal, and a commit over fewer than 1000 entries checkpoints nothing:
\* the main file and the journal's length stay as they are.
C16_CommitCheckpointsWhenFull ==
    [][ret'.op = "commit" =>
          /\ ret'.tag = "Ok" => journal_manager'.len < JOURNAL_FULL_LEN
          /\ journal_manager.len < JOURNAL_FULL_LEN =>
                /\ file' = file
                /\ journal_manager'.len = journal_manager.len]_vars

\* a commit that found the journal full and checkpointed it
C16_Witness ==
    /\ ret.op = "commit" /\ ret.tag = "Ok"
    /\ journal_manager.len = 0
    /\ \E pid \in PipePids : file.pages[pid].kind = "raw"

\* C20: when the layer above uses only the auto_* calls and page
\* operations, transaction_state is DbAuto exactly when the journal has a
\* transaction open.
C20_DbAutoIffJournalOpen ==
    (transaction_state = "DbAuto") <=> (journal_manager.tx # "None")

\* C17: an alloc_page_id that finds the free list empty and returns id n
\* leaves the logical file size covering page n:
\* (n + 1) * page_size <= last_commit_db_size.
C17_FreshPageInsideFileSize ==
    [][(ret'.op = "alloc_page_id" /\ ret'.tag = "Ok" /\ FreeList = <<>>) =>
          (ret'.val + 1) * PageSize <= last_commit_db_size']_vars

\* C18: no key of the free-bucket map has an empty vector of page ids,
\* whatever the calls so far returned.
C18_NoEmptyBucket ==
    \A key \in DOMAIN data_page_map : data_page_map[key] # <<>>

\* C19: after every call that returned Ok, no page id is twice in the
\* header free list and no page in it holds a live document.
C19_FreeListPagesAreFree ==
    (~panicked /\ ret.tag = "Ok") =>
        /\ \A i, j \in 1..Len(FreeList) : i # j => FreeList[i] # FreeList[j]
        /\ \A i \in 1..Len(FreeList) :
               wrapper_is_empty(DataPageWrapper_from_raw(
                   RawPage(FreeList[i], Visible(FreeList[i]))))

====
